---- MODULE Spec2Model ----
(***************************************************************************)
(* Article Coach: issue detection, prioritisation, the interactive         *)
(* resolution loop and fix validation.                                     *)
(*                                                                         *)
(* Texts are sequences of one-character strings.  Numbers that the code    *)
(* holds as floats (percentages, rates, readability scores) are held in    *)
(* tenths, so 10.0 is 100 and 0.5 is 5.  Outputs of the third-party        *)
(* engines (LanguageTool, textstat, spaCy) are inputs drawn from bounded   *)
(* sets.  The coach's ProblemDetector and the one FixValidator builds see  *)
(* the same analyzers: the import-time flags decide for both.              *)
(***************************************************************************)
EXTENDS Integers, Sequences, FiniteSets, TLC

VARIABLES
    pc,                   \* position of the running operation
    grammar_analyzer,     \* ProblemDetector.grammar_analyzer is not None
    readability_analyzer, \* ProblemDetector.readability_analyzer is not None
    quality_analyzer,     \* ProblemDetector.quality_analyzer is not None
    analyzer_inits,       \* history: how often each analyzer class has been
                          \* constructed with success since the program started
    skip_types,           \* ArticleCoach.skip_types
    quick_mode,           \* ArticleCoach.quick_mode
    original_text,        \* ArticleCoach.original_text
    coached_text,         \* ArticleCoach.coached_text (the working text)
    fixed_count,          \* ArticleCoach.fixed_count
    skipped_count,        \* ArticleCoach.skipped_count
    analysis,             \* analyzer outputs for the text handed to find_all_issues
    all_issues,           \* list returned by find_all_issues
    limit,                \* limit argument of top_issues
    issues,               \* list returned by top_issues / iterated by _present_issues
    it,                   \* number of items the for loop has taken from enumerate
    i,                    \* loop variable i of _present_issues
    presented,            \* history: issue numbers handed to present_issue
    last_action,          \* history: what the latest loop iteration did
    validate_calls,       \* history: number of validate_fix invocations
    validation,           \* history: arguments, engine reports and verdict of the
                          \* validate_fix call of the latest step, if it made one
    coached_file,         \* content of the coached file, None while not written
    result                \* return value of coach_article, None while running

vars == <<pc, grammar_analyzer, readability_analyzer, quality_analyzer,
          analyzer_inits,
          skip_types, quick_mode, original_text, coached_text, fixed_count,
          skipped_count, analysis, all_issues, limit, issues, it, i,
          presented, last_action, validate_calls, validation, coached_file,
          result>>

\* Python's None where a text is expected: a value no text equals
None == <<"None">>

Tenths(n) == n * 10

Min(a, b) == IF a < b THEN a ELSE b

(***************************************************************************)
(* Python string operations on sequences of characters.                    *)
(***************************************************************************)
IsSpace(c) == c \in {" ", "\n"}

Take(s, n) == SubSeq(s, 1, Min(n, Len(s)))

Drop(s, n) == SubSeq(s, n + 1, Len(s))

StartsWith(s, p) == Len(p) <= Len(s) /\ SubSeq(s, 1, Len(p)) = p

RECURSIVE LStrip(_)
LStrip(s) ==
    IF s # <<>> /\ IsSpace(Head(s)) THEN LStrip(Tail(s)) ELSE s

RECURSIVE RStrip(_)
RStrip(s) ==
    IF s # <<>> /\ IsSpace(s[Len(s)]) THEN RStrip(SubSeq(s, 1, Len(s) - 1)) ELSE s

\* str.strip()
Strip(s) == RStrip(LStrip(s))

\* str.find(sub): the least 1-based index at which sub occurs, 0 when absent
RECURSIVE FindFrom(_, _, _)
FindFrom(s, sub, k) ==
    IF k + Len(sub) - 1 > Len(s) THEN 0
    ELSE IF SubSeq(s, k, k + Len(sub) - 1) = sub THEN k
    ELSE FindFrom(s, sub, k + 1)

Find(s, sub) == FindFrom(s, sub, 1)

Contains(s, sub) == Find(s, sub) # 0

\* a replacement that appends the new text when old is not found
ReplaceFirstOrAppend(s, old, new) ==
    LET k == Find(s, old)
    IN  IF k = 0 THEN s \o new
        ELSE SubSeq(s, 1, k - 1) \o new \o SubSeq(s, k + Len(old), Len(s))

\* str.replace(old, new): the count argument left out
RECURSIVE ReplaceAll(_, _, _)
ReplaceAll(s, old, new) ==
    LET k == Find(s, old)
    IN  IF k = 0 \/ old = <<>> THEN s
        ELSE SubSeq(s, 1, k - 1) \o new
             \o ReplaceAll(SubSeq(s, k + Len(old), Len(s)), old, new)

\* str.replace(old, new, 1)
ReplaceFirst(s, old, new) ==
    LET k == Find(s, old)
    IN  IF k = 0 THEN s
        ELSE SubSeq(s, 1, k - 1) \o new \o SubSeq(s, k + Len(old), Len(s))

\* str.split(sep) for a non-empty separator
RECURSIVE Split(_, _)
Split(s, sep) ==
    LET k == Find(s, sep)
    IN  IF k = 0 THEN <<s>>
        ELSE <<SubSeq(s, 1, k - 1)>> \o Split(Drop(s, k + Len(sep) - 1), sep)

\* A "W" character stands for a run of BlockWords words joined by single
\* spaces; every other non-space character is a letter of a word.
BlockWords == 151

\* len(str.split()): the number of whitespace-delimited words
RECURSIVE WordCountFrom(_, _)
WordCountFrom(s, inWord) ==
    IF s = <<>> THEN 0
    ELSE IF IsSpace(Head(s)) THEN WordCountFrom(Tail(s), FALSE)
    ELSE (IF inWord THEN 0 ELSE 1)
         + (IF Head(s) = "W" THEN BlockWords - 1 ELSE 0)
         + WordCountFrom(Tail(s), TRUE)

WordCount(s) == WordCountFrom(s, FALSE)

\* [p for p in text.split('\n\n') if p.strip()]
Paragraphs(text) ==
    SelectSeq(Split(text, <<"\n", "\n">>), LAMBDA p : Strip(p) # <<>>)

(***************************************************************************)
(* coaching/problem_detector.py                                            *)
(***************************************************************************)
Issue(type, severity, location, context, metrics) ==
    [type |-> type, severity |-> severity, location |-> location,
     context |-> context, metrics |-> metrics]

SEVERITY_SCORES ==
    [spelling |-> 10, grammar |-> 9, factual_error |-> 10,
     sentence_too_long |-> 7, difficult_words |-> 6, poor_transitions |-> 6,
     paragraph_too_long |-> 6,
     passive_voice |-> 5, weak_verbs |-> 4, adverbs |-> 3, word_repetition |-> 4]

\* the table looked up by an attribute that is no key of it: every lookup
\* misses and the default is returned
score_issue_missed(issue) ==
    IF issue.context \in {} THEN SEVERITY_SCORES[issue.type] ELSE 3

\* another default for the types the table does not hold
score_issue_default_five(issue) ==
    IF issue.type \in DOMAIN SEVERITY_SCORES THEN SEVERITY_SCORES[issue.type] ELSE 5

\* self.SEVERITY_SCORES.get(issue.type, 3)
score_issue(issue) ==
    IF issue.type \in DOMAIN SEVERITY_SCORES THEN SEVERITY_SCORES[issue.type] ELSE 3

\* an ascending sort that is then reversed: ties come out in reverse order
RECURSIVE InsertBySeverityReversed(_, _)
InsertBySeverityReversed(sorted, x) ==
    IF sorted = <<>> THEN <<x>>
    ELSE IF Head(sorted).severity > x.severity
         THEN <<Head(sorted)>> \o InsertBySeverityReversed(Tail(sorted), x)
         ELSE <<x>> \o sorted

\* sorted(issues, key=lambda x: x.severity, reverse=True): a stable sort, so
\* an element goes behind every element of greater or equal severity
RECURSIVE InsertBySeverity(_, _)
InsertBySeverity(sorted, x) ==
    IF sorted = <<>> THEN <<x>>
    ELSE IF Head(sorted).severity >= x.severity
         THEN <<Head(sorted)>> \o InsertBySeverity(Tail(sorted), x)
         ELSE <<x>> \o sorted

RECURSIVE SortBySeverityDesc(_)
SortBySeverityDesc(list) ==
    IF list = <<>> THEN <<>>
    ELSE InsertBySeverity(SortBySeverityDesc(SubSeq(list, 1, Len(list) - 1)),
                          list[Len(list)])

\* the severity filter left out
top_issues_unfiltered(list, lim) == Take(SortBySeverityDesc(list), lim)

\* important_issues[:limit] for limit >= 0
top_issues(list, lim) ==
    LET sorted_issues == SortBySeverityDesc(list)
        important_issues == SelectSeq(sorted_issues, LAMBDA x : x.severity >= 5)
    IN  Take(important_issues, lim)

\* issue_count taken from the slice that is emitted, not from the whole list
detect_grammar_issues_sliced(g) ==
    [k \in 1..Min(5, Len(g.spelling_issues)) |->
        Issue("spelling", 10,
              <<"Character ", ToString(g.spelling_issues[k].offset)>>,
              g.spelling_issues[k].context,
              [issue_count |-> Min(5, Len(g.spelling_issues))])]
    \o
    [k \in 1..Min(5, Len(g.grammar_issues)) |->
        Issue("grammar", 9,
              <<"Character ", ToString(g.grammar_issues[k].offset)>>,
              g.grammar_issues[k].context,
              [issue_count |-> Min(5, Len(g.grammar_issues))])]

\* analysis['spelling_issues'][:5] and analysis['grammar_issues'][:5]
detect_grammar_issues(g) ==
    [k \in 1..Min(5, Len(g.spelling_issues)) |->
        Issue("spelling", 10,
              <<"Character ", ToString(g.spelling_issues[k].offset)>>,
              g.spelling_issues[k].context,
              [issue_count |-> Len(g.spelling_issues)])]
    \o
    [k \in 1..Min(5, Len(g.grammar_issues)) |->
        Issue("grammar", 9,
              <<"Character ", ToString(g.grammar_issues[k].offset)>>,
              g.grammar_issues[k].context,
              [issue_count |-> Len(g.grammar_issues)])]

\* ReadabilityAnalyzer._interpret_reading_ease
interpret_reading_ease(score) ==
    IF score >= Tenths(90) THEN "Very Easy"
    ELSE IF score >= Tenths(80) THEN "Easy"
    ELSE IF score >= Tenths(70) THEN "Fairly Easy"
    ELSE IF score >= Tenths(60) THEN "Standard"
    ELSE IF score >= Tenths(50) THEN "Fairly Difficult"
    ELSE IF score >= Tenths(30) THEN "Difficult"
    ELSE "Very Difficult"

\* both thresholds taken inclusively
detect_readability_issues_inclusive(r) ==
    (IF r.flesch_reading_ease <= Tenths(50)
     THEN <<Issue("difficult_words", 6, <<"Throughout article">>,
                  <<"Readability score: ", ToString(r.flesch_reading_ease),
                    " (", interpret_reading_ease(r.flesch_reading_ease), ")">>,
                  [flesch_score |-> r.flesch_reading_ease,
                   difficult_words |-> r.difficult_words,
                   avg_sentence_length |-> r.avg_sentence_length])>>
     ELSE <<>>)
    \o
    (IF r.avg_sentence_length >= Tenths(20)
     THEN <<Issue("sentence_too_long", 7, <<"Throughout article">>,
                  <<"Average sentence length: ", ToString(r.avg_sentence_length),
                    " words">>,
                  [avg_sentence_length |-> r.avg_sentence_length])>>
     ELSE <<>>)

\* analysis['flesch_reading_ease'] < 50 and analysis['avg_sentence_length'] > 20
detect_readability_issues(r) ==
    (IF r.flesch_reading_ease < Tenths(50)
     THEN <<Issue("difficult_words", 6, <<"Throughout article">>,
                  <<"Readability score: ", ToString(r.flesch_reading_ease),
                    " (", interpret_reading_ease(r.flesch_reading_ease), ")">>,
                  [flesch_score |-> r.flesch_reading_ease,
                   difficult_words |-> r.difficult_words,
                   avg_sentence_length |-> r.avg_sentence_length])>>
     ELSE <<>>)
    \o
    (IF r.avg_sentence_length > Tenths(20)
     THEN <<Issue("sentence_too_long", 7, <<"Throughout article">>,
                  <<"Average sentence length: ", ToString(r.avg_sentence_length),
                    " words">>,
                  [avg_sentence_length |-> r.avg_sentence_length])>>
     ELSE <<>>)

(***************************************************************************)
(* optimization/local_analyzer.py, WritingQualityAnalyzer.  The spaCy      *)
(* document is given by its counts: sents (sentences), passive (sentences  *)
(* with a passive auxiliary), tokens, adverbs, verbs, weak (weak verbs),   *)
(* words (content words), repetitions and transitions.                     *)
(***************************************************************************)
\* a / b * 100 in tenths, rounded down
Percent(a, b) == (a * 1000) \div b

\* examples holds len(passive_sentences[:5])
detect_passive_voice(doc) ==
    LET percentage == IF doc.sents > 0 THEN Percent(doc.passive, doc.sents) ELSE 0
    IN  [count |-> doc.passive, percentage |-> percentage,
         examples |-> Min(5, doc.passive),
         is_excessive |-> percentage > Tenths(10)]

analyze_adverbs(doc) ==
    [count |-> doc.adverbs,
     per_100_words |-> IF doc.tokens > 0 THEN Percent(doc.adverbs, doc.tokens) ELSE 0,
     is_excessive |-> IF doc.tokens > 0
                      THEN Percent(doc.adverbs, doc.tokens) > Tenths(3) ELSE FALSE]

detect_weak_verbs(doc) ==
    [count |-> doc.weak, total_verbs |-> doc.verbs,
     percentage |-> IF doc.verbs > 0 THEN Percent(doc.weak, doc.verbs) ELSE 0,
     is_excessive |-> IF doc.verbs > 0
                      THEN Percent(doc.weak, doc.verbs) > Tenths(30) ELSE FALSE]

\* len(repetitions) > len(words) * 0.1
detect_repetition(doc) ==
    [total_repetitions |-> doc.repetitions,
     is_excessive |-> doc.repetitions * 10 > doc.words]

analyze_transitions(doc) == [count |-> doc.transitions]

analyze_paragraphs(text) == [count |-> Len(Paragraphs(text))]

quality_analyze(doc, text) ==
    [passive_voice |-> detect_passive_voice(doc),
     adverbs |-> analyze_adverbs(doc),
     weak_verbs |-> detect_weak_verbs(doc),
     repetition |-> detect_repetition(doc),
     transitions |-> analyze_transitions(doc),
     paragraph_stats |-> analyze_paragraphs(text)]

\* one transition per paragraph still counted as too few
detect_quality_issues_lenient(q) ==
    (IF q.passive_voice.is_excessive
     THEN <<Issue("passive_voice", 5, <<"Multiple paragraphs">>,
                  <<ToString(q.passive_voice.examples), " passive constructions found">>,
                  [percentage |-> q.passive_voice.percentage,
                   count |-> q.passive_voice.count])>>
     ELSE <<>>)
    \o
    (IF q.adverbs.is_excessive
     THEN <<Issue("adverbs", 3, <<"Throughout article">>,
                  <<ToString(q.adverbs.count), " adverbs (",
                    ToString(q.adverbs.per_100_words), " per 100 words)">>,
                  [count |-> q.adverbs.count, rate |-> q.adverbs.per_100_words])>>
     ELSE <<>>)
    \o
    (IF q.weak_verbs.is_excessive
     THEN <<Issue("weak_verbs", 4, <<"Throughout article">>,
                  <<ToString(q.weak_verbs.count), " weak verbs (",
                    ToString(q.weak_verbs.percentage), "%)">>,
                  [percentage |-> q.weak_verbs.percentage,
                   count |-> q.weak_verbs.count])>>
     ELSE <<>>)
    \o
    (IF q.repetition.is_excessive
     THEN <<Issue("word_repetition", 4, <<"Multiple sections">>,
                  <<ToString(q.repetition.total_repetitions), " repeated words">>,
                  [total_repetitions |-> q.repetition.total_repetitions])>>
     ELSE <<>>)
    \o
    (IF q.transitions.count <= q.paragraph_stats.count
     THEN <<Issue("poor_transitions", 6, <<"Between paragraphs">>,
                  <<ToString(q.transitions.count), " transitions in ",
                    ToString(q.paragraph_stats.count), " paragraphs">>,
                  [transition_count |-> q.transitions.count,
                   paragraph_count |-> q.paragraph_stats.count])>>
     ELSE <<>>)

detect_quality_issues(q) ==
    (IF q.passive_voice.is_excessive
     THEN <<Issue("passive_voice", 5, <<"Multiple paragraphs">>,
                  <<ToString(q.passive_voice.examples), " passive constructions found">>,
                  [percentage |-> q.passive_voice.percentage,
                   count |-> q.passive_voice.count])>>
     ELSE <<>>)
    \o
    (IF q.adverbs.is_excessive
     THEN <<Issue("adverbs", 3, <<"Throughout article">>,
                  <<ToString(q.adverbs.count), " adverbs (",
                    ToString(q.adverbs.per_100_words), " per 100 words)">>,
                  [count |-> q.adverbs.count, rate |-> q.adverbs.per_100_words])>>
     ELSE <<>>)
    \o
    (IF q.weak_verbs.is_excessive
     THEN <<Issue("weak_verbs", 4, <<"Throughout article">>,
                  <<ToString(q.weak_verbs.count), " weak verbs (",
                    ToString(q.weak_verbs.percentage), "%)">>,
                  [percentage |-> q.weak_verbs.percentage,
                   count |-> q.weak_verbs.count])>>
     ELSE <<>>)
    \o
    (IF q.repetition.is_excessive
     THEN <<Issue("word_repetition", 4, <<"Multiple sections">>,
                  <<ToString(q.repetition.total_repetitions), " repeated words">>,
                  [total_repetitions |-> q.repetition.total_repetitions])>>
     ELSE <<>>)
    \o
    (IF q.transitions.count < q.paragraph_stats.count
     THEN <<Issue("poor_transitions", 6, <<"Between paragraphs">>,
                  <<ToString(q.transitions.count), " transitions in ",
                    ToString(q.paragraph_stats.count), " paragraphs">>,
                  [transition_count |-> q.transitions.count,
                   paragraph_count |-> q.paragraph_stats.count])>>
     ELSE <<>>)

\* the paragraphs numbered by their list index
LongParagraphsFromZero(text) ==
    LET paragraphs == Paragraphs(text)
        numbered == [k \in 1..Len(paragraphs) |-> <<k - 1, WordCount(paragraphs[k])>>]
    IN  SelectSeq(numbered, LAMBDA p : p[2] > 150)

\* [(i + 1, word_count) for paragraphs with word_count > 150]
LongParagraphs(text) ==
    LET paragraphs == Paragraphs(text)
        numbered == [k \in 1..Len(paragraphs) |-> <<k, WordCount(paragraphs[k])>>]
    IN  SelectSeq(numbered, LAMBDA p : p[2] > 150)

\* the list of long paragraphs stored under another key
detect_structure_issues_renamed(text) ==
    LET long_paragraphs == LongParagraphs(text)
    IN  IF long_paragraphs # <<>>
        THEN <<Issue("paragraph_too_long", 6,
                     <<"Paragraph(s) ">> \o
                        [k \in 1..Min(3, Len(long_paragraphs)) |->
                            ToString(long_paragraphs[k][1])],
                     <<ToString(Len(long_paragraphs)), " paragraphs over 150 words">>,
                     [paragraphs |-> long_paragraphs,
                      total_paragraphs |-> Len(Paragraphs(text))])>>
        ELSE <<>>

detect_structure_issues(text) ==
    LET long_paragraphs == LongParagraphs(text)
    IN  IF long_paragraphs # <<>>
        THEN <<Issue("paragraph_too_long", 6,
                     <<"Paragraph(s) ">> \o
                        [k \in 1..Min(3, Len(long_paragraphs)) |->
                            ToString(long_paragraphs[k][1])],
                     <<ToString(Len(long_paragraphs)), " paragraphs over 150 words">>,
                     [long_paragraphs |-> long_paragraphs,
                      total_paragraphs |-> Len(Paragraphs(text))])>>
        ELSE <<>>

\* the structure check moved under the guard of the quality analyzer
find_all_issues_structure_guarded(text, an) ==
    LET found ==
            (IF grammar_analyzer THEN detect_grammar_issues(an.grammar) ELSE <<>>)
            \o (IF readability_analyzer
                THEN detect_readability_issues(an.readability) ELSE <<>>)
            \o (IF quality_analyzer
                THEN detect_quality_issues(quality_analyze(an.doc, text))
                     \o detect_structure_issues(text)
                ELSE <<>>)
    IN  [k \in 1..Len(found) |-> [found[k] EXCEPT !.severity = score_issue(found[k])]]

\* an: the outputs of the grammar and readability engines and the spaCy
\* document for this text; the detector's analyzers that are None are skipped
find_all_issues(text, an) ==
    LET found ==
            (IF grammar_analyzer THEN detect_grammar_issues(an.grammar) ELSE <<>>)
            \o (IF readability_analyzer
                THEN detect_readability_issues(an.readability) ELSE <<>>)
            \o (IF quality_analyzer
                THEN detect_quality_issues(quality_analyze(an.doc, text)) ELSE <<>>)
            \o detect_structure_issues(text)
    IN  [k \in 1..Len(found) |-> [found[k] EXCEPT !.severity = score_issue(found[k])]]

(***************************************************************************)
(* coaching/fix_validator.py                                               *)
(***************************************************************************)
\* dict.get(key, default)
Get(m, key, default) == IF key \in DOMAIN m THEN m[key] ELSE default

Verdict(improved, tier, metrics) ==
    [improved |-> improved, tier |-> tier, metrics |-> metrics]

BeforeAfter(old, new) == [before |-> old, after |-> new]

\* len([i for i in new_issues if i.type == issue_type])
CountOfType(list, type) == Len(SelectSeq(list, LAMBDA x : x.type = type))

\* the gain over the baseline tested before the target
passive_voice_verdict_gain_first(old_pct, new_pct) ==
    LET improvement == old_pct - new_pct
    IN  IF improvement > Tenths(3)
        THEN Verdict(TRUE, "good improvement", BeforeAfter(old_pct, new_pct))
        ELSE IF new_pct < Tenths(10)
        THEN Verdict(TRUE, "excellent", BeforeAfter(old_pct, new_pct))
        ELSE IF improvement > 0
        THEN Verdict(TRUE, "small improvement", BeforeAfter(old_pct, new_pct))
        ELSE Verdict(FALSE, "no improvement", BeforeAfter(old_pct, new_pct))

\* the if/elif chain of the passive_voice rule
passive_voice_verdict(old_pct, new_pct) ==
    LET improvement == old_pct - new_pct
    IN  IF new_pct < Tenths(10)
        THEN Verdict(TRUE, "excellent", BeforeAfter(old_pct, new_pct))
        ELSE IF improvement > Tenths(3)
        THEN Verdict(TRUE, "good improvement", BeforeAfter(old_pct, new_pct))
        ELSE IF improvement > 0
        THEN Verdict(TRUE, "small improvement", BeforeAfter(old_pct, new_pct))
        ELSE Verdict(FALSE, "no improvement", BeforeAfter(old_pct, new_pct))

\* new_an: what the engines report for the edited text
check_improvement(original, edited, issue, new_issues, new_an) ==
    LET issue_type == issue.type
        default == Verdict(TRUE, "text edited", <<>>)
    IN
    IF issue_type \in {"spelling", "grammar"} THEN
        LET new_count == CountOfType(new_issues, issue_type)
            old_count == Get(issue.metrics, "issue_count", 0)
        IN  IF new_count < old_count
            THEN Verdict(TRUE, "reduced", BeforeAfter(old_count, new_count))
            ELSE IF new_count = 0
            THEN Verdict(TRUE, "perfect", BeforeAfter(old_count, 0))
            ELSE Verdict(FALSE, "still remaining", BeforeAfter(old_count, new_count))
    ELSE IF issue_type = "passive_voice" THEN
        IF quality_analyzer THEN
            passive_voice_verdict(Get(issue.metrics, "percentage", 0),
                                  quality_analyze(new_an.doc, edited).passive_voice.percentage)
        ELSE default
    ELSE IF issue_type = "adverbs" THEN
        IF quality_analyzer THEN
            LET new_rate == quality_analyze(new_an.doc, edited).adverbs.per_100_words
                old_rate == Get(issue.metrics, "rate", 0)
                improvement == old_rate - new_rate
            IN  IF new_rate < Tenths(3)
                THEN Verdict(TRUE, "excellent", BeforeAfter(old_rate, new_rate))
                ELSE IF improvement > 5
                THEN Verdict(TRUE, "good", BeforeAfter(old_rate, new_rate))
                ELSE Verdict(FALSE, "still", BeforeAfter(old_rate, new_rate))
        ELSE default
    ELSE IF issue_type = "weak_verbs" THEN
        IF quality_analyzer THEN
            LET new_pct == quality_analyze(new_an.doc, edited).weak_verbs.percentage
                old_pct == Get(issue.metrics, "percentage", 0)
                improvement == old_pct - new_pct
            IN  IF new_pct < Tenths(30)
                THEN Verdict(TRUE, "great", BeforeAfter(old_pct, new_pct))
                ELSE IF improvement > Tenths(3)
                THEN Verdict(TRUE, "improved", BeforeAfter(old_pct, new_pct))
                ELSE Verdict(FALSE, "still", BeforeAfter(old_pct, new_pct))
        ELSE default
    ELSE IF issue_type = "difficult_words" THEN
        IF readability_analyzer THEN
            LET new_score == new_an.readability.flesch_reading_ease
                old_score == Get(issue.metrics, "flesch_score", 0)
                improvement == new_score - old_score
            IN  IF new_score >= Tenths(60)
                THEN Verdict(TRUE, "excellent", BeforeAfter(old_score, new_score))
                ELSE IF improvement > Tenths(5)
                THEN Verdict(TRUE, "better", BeforeAfter(old_score, new_score))
                ELSE IF improvement > 0
                THEN Verdict(TRUE, "slight improvement", BeforeAfter(old_score, new_score))
                ELSE Verdict(FALSE, "unchanged", BeforeAfter(old_score, new_score))
        ELSE default
    ELSE IF issue_type = "sentence_too_long" THEN
        IF readability_analyzer THEN
            LET new_avg == new_an.readability.avg_sentence_length
                old_avg == Get(issue.metrics, "avg_sentence_length", 0)
                improvement == old_avg - new_avg
            IN  IF new_avg < Tenths(20)
                THEN Verdict(TRUE, "perfect", BeforeAfter(old_avg, new_avg))
                ELSE IF improvement > Tenths(2)
                THEN Verdict(TRUE, "better", BeforeAfter(old_avg, new_avg))
                ELSE Verdict(FALSE, "still", BeforeAfter(old_avg, new_avg))
        ELSE default
    ELSE IF issue_type = "paragraph_too_long" THEN
        LET long_paras == SelectSeq(Paragraphs(edited), LAMBDA p : WordCount(p) > 150)
            old_count == Len(Get(issue.metrics, "long_paragraphs", <<>>))
        IN  IF Len(long_paras) = 0
            THEN Verdict(TRUE, "excellent", BeforeAfter(old_count, 0))
            ELSE IF Len(long_paras) < old_count
            THEN Verdict(TRUE, "improved", BeforeAfter(old_count, Len(long_paras)))
            ELSE Verdict(FALSE, "still", BeforeAfter(old_count, Len(long_paras)))
    ELSE IF issue_type = "word_repetition" THEN
        IF quality_analyzer THEN
            LET new_count == quality_analyze(new_an.doc, edited).repetition.total_repetitions
                old_count == Get(issue.metrics, "total_repetitions", 0)
            IN  IF new_count < old_count
                THEN Verdict(TRUE, "better", BeforeAfter(old_count, new_count))
                ELSE Verdict(FALSE, "still", BeforeAfter(old_count, new_count))
        ELSE default
    ELSE IF issue_type = "poor_transitions" THEN
        IF quality_analyzer THEN
            LET new_count == quality_analyze(new_an.doc, edited).transitions.count
                old_count == Get(issue.metrics, "transition_count", 0)
                para_count == Len(Paragraphs(edited))
            IN  IF new_count >= para_count
                THEN Verdict(TRUE, "great", BeforeAfter(old_count, new_count))
                ELSE IF new_count > old_count
                THEN Verdict(TRUE, "improved", BeforeAfter(old_count, new_count))
                ELSE Verdict(FALSE, "still", BeforeAfter(old_count, new_count))
        ELSE default
    ELSE default

validate_fix(original, edited, issue, new_an) ==
    check_improvement(original, edited, issue, find_all_issues(edited, new_an), new_an)

(***************************************************************************)
(* coaching/issue_presenter.py                                             *)
(***************************************************************************)
\* the lines edit_text_inline writes above the text; the description is one
\* opaque chunk
Header ==
    <<"#", " Fix: description", "\n",
      "#", " Delete this line and edit the text below.", "\n",
      "#", " Save and exit", "\n", "\n">>

RECURSIVE Join(_, _)
Join(lines, sep) ==
    IF lines = <<>> THEN <<>>
    ELSE IF Len(lines) = 1 THEN lines[1]
    ELSE lines[1] \o sep \o Join(Tail(lines), sep)

\* buffer: the content of the temporary file when nano exits, or None when
\* nano fails (CalledProcessError); the result is the edited text or None
edit_text_inline(buffer) ==
    IF buffer = None THEN None
    ELSE LET lines == SelectSeq(Split(buffer, <<"\n">>),
                                LAMBDA line : ~StartsWith(line, <<"#">>))
             edited == Strip(Join(lines, <<"\n">>))
         IN  IF edited # <<>> THEN edited ELSE None

(***************************************************************************)
(* article_coach.py                                                        *)
(***************************************************************************)
\* [i for i in issues if i.type not in self.skip_types], then top_issues
filter_issues(list) ==
    top_issues(SelectSeq(list, LAMBDA x : x.type \notin skip_types),
               IF quick_mode THEN 3 ELSE 10)

(***************************************************************************)
(* Inputs of a coaching session.                                           *)
(***************************************************************************)
Absent == [available |-> FALSE]

Match(context, offset) == [context |-> context, offset |-> offset]

GrammarReport(spelling, grammar) ==
    [spelling_issues |-> spelling, grammar_issues |-> grammar]

ReadabilityReport(flesch, avg, difficult) ==
    [flesch_reading_ease |-> flesch, avg_sentence_length |-> avg,
     difficult_words |-> difficult]

SpacyDoc(sents, passive, tokens, adverbs, verbs, weak, words, repetitions, transitions) ==
    [sents |-> sents, passive |-> passive, tokens |-> tokens, adverbs |-> adverbs,
     verbs |-> verbs, weak |-> weak, words |-> words, repetitions |-> repetitions,
     transitions |-> transitions]

\* what the engines that are present report for one text
Reports(grammars, readabilities, docs) ==
    {[grammar |-> g, readability |-> r, doc |-> d] :
        g \in (IF grammar_analyzer THEN grammars ELSE {Absent}),
        r \in (IF readability_analyzer THEN readabilities ELSE {Absent}),
        d \in (IF quality_analyzer THEN docs ELSE {Absent})}

CleanDoc == SpacyDoc(2, 0, 10, 0, 2, 0, 5, 0, 2)

PassiveDoc == SpacyDoc(2, 1, 10, 1, 2, 1, 5, 1, 0)

SessionDocuments ==
    {<<"a", "b", "a">>, <<"W">>, <<" ">>}

SessionGrammar ==
    {GrammarReport(<<>>, <<>>),
     GrammarReport(<<Match(<<"a">>, 0)>>, <<>>),
     GrammarReport(<<Match(<<"a">>, 0), Match(<<"b", "a">>, 1)>>, <<>>),
     GrammarReport(<<Match(<<"a">>, 0)>>, <<Match(<<"a", "b">>, 0)>>)}

SessionReadability ==
    {ReadabilityReport(Tenths(70), Tenths(15), 0),
     ReadabilityReport(Tenths(45), Tenths(25), 2)}

SessionSpacy == {CleanDoc, PassiveDoc}

\* texts the user may leave in the inline editor for a given snippet
EditorBuffers(context) ==
    {Header \o context,                 \* saved without a change
     Header \o <<"b">>,
     <<"a", "a">>,                      \* header deleted
     <<" ", "b", "\n">>,
     Header,                            \* text deleted
     None}                              \* nano failed

\* what the engines may report for an edited snippet
SnippetGrammar ==
    {GrammarReport(<<>>, <<>>),
     GrammarReport(<<Match(<<"b">>, 0)>>, <<Match(<<"b">>, 0)>>)}

\* documents the user may leave behind in the external editor
ExternalDocuments(text) == {text, <<"b", "b">>}

(***************************************************************************)
(* Construction of the analyzers.  grammar_analyzer, readability_analyzer  *)
(* and quality_analyzer say whether the library behind the class can be    *)
(* imported; a constructor that raises ImportError initializes nothing.    *)
(***************************************************************************)
NoInits == [grammar |-> 0, readability |-> 0, quality |-> 0]

\* ProblemDetector.__init__: GrammarAnalyzer(), ReadabilityAnalyzer() and
\* WritingQualityAnalyzer(), each in its own try
ProblemDetector_init(inits) ==
    [grammar |-> inits.grammar + (IF grammar_analyzer THEN 1 ELSE 0),
     readability |-> inits.readability + (IF readability_analyzer THEN 1 ELSE 0),
     quality |-> inits.quality + (IF quality_analyzer THEN 1 ELSE 0)]

\* FixValidator.__init__: self.detector = ProblemDetector()
FixValidator_init(inits) == ProblemDetector_init(inits)

\* ArticleCoach.__init__: self.detector = ProblemDetector(), then
\* self.validator = FixValidator()
ArticleCoach_init(inits) == FixValidator_init(ProblemDetector_init(inits))

(***************************************************************************)
(* State after ArticleCoach.__init__                                       *)
(***************************************************************************)
NoValidation == [called |-> FALSE]

NoAction == [kind |-> "none"]

Init ==
    /\ pc = "constructed"
    /\ grammar_analyzer \in BOOLEAN
    /\ readability_analyzer \in BOOLEAN
    /\ quality_analyzer \in BOOLEAN
    /\ analyzer_inits = ArticleCoach_init(NoInits)
    /\ skip_types \in {{}, {"spelling", "grammar"}}
    /\ quick_mode \in BOOLEAN
    /\ original_text = <<>>
    /\ coached_text = <<>>
    /\ fixed_count = 0
    /\ skipped_count = 0
    /\ analysis = Absent
    /\ all_issues = <<>>
    /\ limit = 0
    /\ issues = <<>>
    /\ it = 0
    /\ i = 0
    /\ presented = <<>>
    /\ last_action = NoAction
    /\ validate_calls = 0
    /\ validation = NoValidation
    /\ coached_file = None
    /\ result = "None"

\* the for statement takes the next item and present_issue shows it, or the
\* loop is exhausted, _present_issues returns True and coach_article saves
\* the coached text, has calculate_overall_improvements compute the summary
\* from the two texts (it assigns to neither) and returns True
ForNext ==
    IF it < Len(issues)
    THEN /\ it' = it + 1
         /\ i' = it + 1
         /\ presented' = Append(presented, it + 1)
         /\ pc' = "presenting"
         /\ UNCHANGED <<coached_file, result>>
    ELSE /\ coached_file' = coached_text'
         /\ result' = "True"
         /\ pc' = "done"
         /\ UNCHANGED <<it, i, presented>>

\* the early return taken as a completed loop, with the save that follows it
NoIssuesFoundSaved ==
    /\ pc' = "done"
    /\ result' = "True"
    /\ coached_file' = coached_text'
    /\ UNCHANGED <<it, i, presented>>

\* if not issues: show_no_issues(); return True
NoIssuesFound ==
    /\ pc' = "done"
    /\ result' = "True"
    /\ UNCHANGED <<it, i, presented, coached_file>>

\* coach_article up to the first prompt, for a file that holds one of the
\* documents (None: there is no such file) and a grammar engine that
\* answers with one of grammars[content]
Load(documents, grammars) ==
    /\ \E content \in documents \cup {None} :
         IF content = None
         THEN \* FileNotFoundError
              /\ pc' = "done"
              /\ result' = "False"
              /\ UNCHANGED <<original_text, coached_text, analysis, all_issues,
                             limit, issues, it, i, presented, coached_file>>
         ELSE /\ original_text' = content
              /\ coached_text' = content
              /\ IF Strip(content) = <<>>
                 THEN /\ pc' = "done"
                      /\ result' = "False"
                      /\ UNCHANGED <<analysis, all_issues, limit, issues, it, i,
                                     presented, coached_file>>
                 ELSE \E an \in Reports(grammars[content], SessionReadability, SessionSpacy) :
                      /\ analysis' = an
                      /\ all_issues' = find_all_issues(content, an)
                      /\ limit' = IF quick_mode THEN 3 ELSE 10
                      /\ issues' = filter_issues(all_issues')
                      /\ IF issues' = <<>>
                         THEN NoIssuesFound
                         ELSE /\ pc' = "presenting"
                              /\ it' = 1
                              /\ i' = 1
                              /\ presented' = <<1>>
                              /\ UNCHANGED <<coached_file, result>>
    /\ UNCHANGED <<grammar_analyzer, readability_analyzer, quality_analyzer, analyzer_inits,
                   skip_types, quick_mode, fixed_count, skipped_count,
                   last_action, validate_calls, validation>>

\* coach_article called on the coach as constructed
LoadAndAnalyze ==
    /\ pc = "constructed"
    /\ Load(SessionDocuments, [content \in SessionDocuments |-> SessionGrammar])

Act(kind, edited) == [kind |-> kind, issue |-> i, edited |-> edited]

\* a confirmed quit that falls through to the save instead of returning False
QuitConfirmedSaves ==
    /\ pc = "presenting"
    /\ last_action' = Act("quit", None)
    /\ validation' = NoValidation
    /\ pc' = "done"
    /\ result' = "True"
    /\ coached_file' = coached_text
    /\ UNCHANGED <<grammar_analyzer, readability_analyzer, quality_analyzer, analyzer_inits,
                   skip_types, quick_mode, original_text, coached_text,
                   fixed_count, skipped_count, analysis, all_issues, limit,
                   issues, it, i, presented, validate_calls>>

\* action == 'quit' and confirm_quit() answers yes
QuitConfirmed ==
    /\ pc = "presenting"
    /\ last_action' = Act("quit", None)
    /\ validation' = NoValidation
    /\ pc' = "done"
    /\ result' = "False"
    /\ UNCHANGED <<grammar_analyzer, readability_analyzer, quality_analyzer, analyzer_inits,
                   skip_types, quick_mode, original_text, coached_text,
                   fixed_count, skipped_count, analysis, all_issues, limit,
                   issues, it, i, presented, validate_calls, coached_file>>

\* a declined quit whose i -= 1 takes effect: the same issue is shown again
QuitDeclinedRepresents ==
    /\ pc = "presenting"
    /\ last_action' = Act("quit_declined", None)
    /\ validation' = NoValidation
    /\ presented' = Append(presented, i)
    /\ UNCHANGED <<grammar_analyzer, readability_analyzer, quality_analyzer, analyzer_inits,
                   skip_types, quick_mode, original_text, coached_text,
                   fixed_count, skipped_count, analysis, all_issues, limit,
                   issues, validate_calls, pc, it, i, coached_file, result>>

\* a declined quit that drops the edits made so far
QuitDeclinedReverts ==
    /\ pc = "presenting"
    /\ last_action' = Act("quit_declined", None)
    /\ validation' = NoValidation
    /\ coached_text' = original_text
    /\ ForNext
    /\ UNCHANGED <<grammar_analyzer, readability_analyzer, quality_analyzer, analyzer_inits,
                   skip_types, quick_mode, original_text,
                   fixed_count, skipped_count, analysis, all_issues, limit,
                   issues, validate_calls>>

\* action == 'quit' and confirm_quit() answers no: i -= 1; continue.  The
\* decrement reaches only the local name i, which the for statement rebinds
\* from the enumerate iterator on the next iteration.
QuitDeclined ==
    /\ pc = "presenting"
    /\ last_action' = Act("quit_declined", None)
    /\ validation' = NoValidation
    /\ coached_text' = coached_text
    /\ ForNext
    /\ UNCHANGED <<grammar_analyzer, readability_analyzer, quality_analyzer, analyzer_inits,
                   skip_types, quick_mode, original_text,
                   fixed_count, skipped_count, analysis, all_issues, limit,
                   issues, validate_calls>>

\* a skip that bumps the wrong counter
SkipCountsFixed ==
    /\ pc = "presenting"
    /\ last_action' = Act("skip", None)
    /\ validation' = NoValidation
    /\ fixed_count' = fixed_count + 1
    /\ coached_text' = coached_text
    /\ ForNext
    /\ UNCHANGED <<grammar_analyzer, readability_analyzer, quality_analyzer, analyzer_inits,
                   skip_types, quick_mode, original_text,
                   skipped_count, analysis, all_issues, limit,
                   issues, validate_calls>>

\* a skip counted as a fix as well
SkipCountsBoth ==
    /\ pc = "presenting"
    /\ last_action' = Act("skip", None)
    /\ validation' = NoValidation
    /\ skipped_count' = skipped_count + 1
    /\ fixed_count' = fixed_count + 1
    /\ coached_text' = coached_text
    /\ ForNext
    /\ UNCHANGED <<grammar_analyzer, readability_analyzer, quality_analyzer, analyzer_inits,
                   skip_types, quick_mode, original_text,
                   analysis, all_issues, limit,
                   issues, validate_calls>>

\* action == 'skip'
Skip ==
    /\ pc = "presenting"
    /\ last_action' = Act("skip", None)
    /\ validation' = NoValidation
    /\ skipped_count' = skipped_count + 1
    /\ coached_text' = coached_text
    /\ ForNext
    /\ UNCHANGED <<grammar_analyzer, readability_analyzer, quality_analyzer, analyzer_inits,
                   skip_types, quick_mode, original_text,
                   fixed_count, analysis, all_issues, limit,
                   issues, validate_calls>>

\* the comparison with the original snippet left out
EditAcceptedUncompared(edited, issue) ==
    edited # None /\ edited # <<>>

\* if edited and edited != issue.context
EditAccepted(edited, issue) ==
    edited # None /\ edited # <<>> /\ edited # issue.context

\* action == 'edit_inline'
EditInline ==
    /\ pc = "presenting"
    /\ \E buffer \in EditorBuffers(issues[i].context) :
         LET issue == issues[i]
             edited == edit_text_inline(buffer)
         IN  /\ last_action' = Act("edit_inline", edited)
             /\ IF EditAccepted(edited, issue)
                THEN \E new_an \in Reports(SnippetGrammar, SessionReadability, SessionSpacy) :
                     LET v == validate_fix(issue.context, edited, issue, new_an)
                     IN  /\ coached_text' = ReplaceFirst(coached_text, issue.context, edited)
                         /\ validate_calls' = validate_calls + 1
                         /\ validation' =
                                [called |-> TRUE, original |-> issue.context,
                                 edited |-> edited, issue |-> issue,
                                 improved |-> v.improved, tier |-> v.tier,
                                 metrics |-> v.metrics]
                         /\ fixed_count' = IF v.improved THEN fixed_count + 1
                                           ELSE fixed_count
                ELSE /\ validation' = NoValidation
                     /\ UNCHANGED <<coached_text, validate_calls, fixed_count>>
    /\ ForNext
    /\ UNCHANGED <<grammar_analyzer, readability_analyzer, quality_analyzer, analyzer_inits,
                   skip_types, quick_mode, original_text, skipped_count,
                   analysis, all_issues, limit, issues>>

\* the counter bumped outside the test of open_in_external_editor
EditExternalCountsFailure ==
    /\ pc = "presenting"
    /\ \E reloaded \in ExternalDocuments(coached_text) \cup {None} :
         /\ last_action' = Act("edit_external", reloaded)
         /\ coached_text' = IF reloaded # None THEN reloaded ELSE coached_text
         /\ fixed_count' = fixed_count + 1
    /\ validation' = NoValidation
    /\ ForNext
    /\ UNCHANGED <<grammar_analyzer, readability_analyzer, quality_analyzer, analyzer_inits,
                   skip_types, quick_mode, original_text, skipped_count,
                   analysis, all_issues, limit, issues, validate_calls>>

\* action == 'edit_external'; reloaded is the content of the scratch file
\* when the editor returns, None when open_in_external_editor returns False
EditExternal ==
    /\ pc = "presenting"
    /\ \E reloaded \in ExternalDocuments(coached_text) \cup {None} :
         /\ last_action' = Act("edit_external", reloaded)
         /\ IF reloaded # None
            THEN /\ coached_text' = reloaded
                 /\ fixed_count' = fixed_count + 1
            ELSE UNCHANGED <<coached_text, fixed_count>>
    /\ validation' = NoValidation
    /\ ForNext
    /\ UNCHANGED <<grammar_analyzer, readability_analyzer, quality_analyzer, analyzer_inits,
                   skip_types, quick_mode, original_text, skipped_count,
                   analysis, all_issues, limit, issues, validate_calls>>

Next ==
    \/ LoadAndAnalyze
    \/ QuitConfirmed
    \/ QuitDeclined
    \/ Skip
    \/ EditInline
    \/ EditExternal

Spec == Init /\ [][Next]_vars

\* every prompt is answered: input() blocks until the user types an answer,
\* and the program then runs the branch of that answer to its end
LiveSpec == Spec /\ WF_vars(Next)

(***************************************************************************)
(* The detector and the prioritizer on their own: find_all_issues on the   *)
(* engines' reports for a text, and top_issues on that list or on any      *)
(* list of issues.                                                         *)
(***************************************************************************)
MaxMatches == 6

MaxList == 3

\* n matches in text order
Matches(n) ==
    [k \in 1..n |-> Match(IF k % 2 = 1 THEN <<"a">> ELSE <<"b">>, k - 1)]

\* every context the matches carry occurs in each text
DetectTexts ==
    {<<"a", "b">>,
     <<"a", "b", "\n", "\n", "W">>,
     <<"W", "\n", "\n", "a", "b", "\n", "\n", "W", "\n", "\n", "W", "\n", "\n", "W">>}

DetectGrammar ==
    {GrammarReport(Matches(ns), Matches(ng)) : ns, ng \in 0..MaxMatches}

DetectReadability ==
    {ReadabilityReport(f, a, 1) :
        f \in {Tenths(50) - 1, Tenths(50)}, a \in {Tenths(20), Tenths(20) + 1}}

DetectSpacy == {CleanDoc, PassiveDoc}

\* hand-made issues, as a caller of top_issues may pass them
AnyIssues ==
    {Issue(t, s, <<"Test">>, <<"a">>, <<>>) :
        t \in {"difficult_words", "poor_transitions", "paragraph_too_long", "adverbs"},
        s \in {4, 6, 9}}

\* hand-made issues of any type, as a caller of score_issue may pass them:
\* the keys of the table and the categories the Issue class names
ScoreIssues ==
    {Issue(t, s, <<"Test">>, <<"a">>, <<>>) :
        t \in DOMAIN SEVERITY_SCORES \cup {"readability", "style", "structure"},
        s \in {1, 5, 10}}

RECURSIVE ListsUpTo(_, _)
ListsUpTo(S, n) ==
    IF n = 0 THEN {<<>>}
    ELSE LET shorter == ListsUpTo(S, n - 1)
         IN  shorter \cup {Append(l, x) : l \in {m \in shorter : Len(m) = n - 1}, x \in S}

Idle ==
    /\ skip_types = {}
    /\ quick_mode = FALSE
    /\ coached_text = <<>>
    /\ fixed_count = 0
    /\ skipped_count = 0
    /\ issues = <<>>
    /\ it = 0
    /\ i = 0
    /\ presented = <<>>
    /\ last_action = NoAction
    /\ validate_calls = 0
    /\ validation = NoValidation
    /\ coached_file = None
    /\ result = "None"

InitDetect ==
    /\ grammar_analyzer \in BOOLEAN
    /\ readability_analyzer \in BOOLEAN
    /\ quality_analyzer \in BOOLEAN
    /\ analyzer_inits = ProblemDetector_init(NoInits)
    /\ \/ /\ pc = "find_all_issues"
          /\ original_text \in DetectTexts
          /\ analysis \in Reports(DetectGrammar, DetectReadability, DetectSpacy)
          /\ all_issues = <<>>
          /\ limit \in {3, 10}
       \/ /\ pc = "top_issues"
          /\ grammar_analyzer /\ readability_analyzer /\ quality_analyzer
          /\ original_text = <<>>
          /\ analysis = Absent
          /\ all_issues \in ListsUpTo(AnyIssues, MaxList)
          /\ limit \in 0..MaxList
       \/ /\ pc = "score_issue"
          /\ grammar_analyzer /\ readability_analyzer /\ quality_analyzer
          /\ original_text = <<>>
          /\ analysis = Absent
          /\ all_issues \in {<<x>> : x \in ScoreIssues}
          /\ limit = 0
    /\ Idle

FindAllIssues ==
    /\ pc = "find_all_issues"
    /\ all_issues' = find_all_issues(original_text, analysis)
    /\ pc' = "top_issues"
    /\ UNCHANGED <<grammar_analyzer, readability_analyzer, quality_analyzer, analyzer_inits,
                   skip_types, quick_mode, original_text, coached_text,
                   fixed_count, skipped_count, analysis, limit, issues, it, i,
                   presented, last_action, validate_calls, validation,
                   coached_file, result>>

TopIssues ==
    /\ pc = "top_issues"
    /\ issues' = top_issues(all_issues, limit)
    /\ pc' = "prioritized"
    /\ UNCHANGED <<grammar_analyzer, readability_analyzer, quality_analyzer, analyzer_inits,
                   skip_types, quick_mode, original_text, coached_text,
                   fixed_count, skipped_count, analysis, all_issues, limit, it, i,
                   presented, last_action, validate_calls, validation,
                   coached_file, result>>

\* issue.severity = self.prioritizer.score_issue(issue), on one issue
ScoreIssue ==
    /\ pc = "score_issue"
    /\ issues' = <<[all_issues[1] EXCEPT !.severity = score_issue(all_issues[1])]>>
    /\ pc' = "scored"
    /\ UNCHANGED <<grammar_analyzer, readability_analyzer, quality_analyzer, analyzer_inits,
                   skip_types, quick_mode, original_text, coached_text,
                   fixed_count, skipped_count, analysis, all_issues, limit, it, i,
                   presented, last_action, validate_calls, validation,
                   coached_file, result>>

NextDetect == FindAllIssues \/ TopIssues \/ ScoreIssue

SpecDetect == InitDetect /\ [][NextDetect]_vars

(***************************************************************************)
(* The validator on its own: validate_fix on an issue the detector emits,  *)
(* an edited snippet and the engines' reports for that snippet.            *)
(***************************************************************************)
ListToSet(list) == {list[k] : k \in 1..Len(list)}

DetectedIssues ==
    UNION {ListToSet(find_all_issues(text, an)) :
              text \in DetectTexts,
              an \in Reports(DetectGrammar, DetectReadability, DetectSpacy)}

ValidateSnippets == {<<"b">>, <<"W">>}

InitValidate ==
    /\ grammar_analyzer \in BOOLEAN
    /\ readability_analyzer \in BOOLEAN
    /\ quality_analyzer \in BOOLEAN
    /\ analyzer_inits = FixValidator_init(NoInits)
    /\ pc = "validate_fix"
    /\ original_text = <<>>
    /\ analysis = Absent
    /\ all_issues = <<>>
    /\ limit = 0
    /\ skip_types = {}
    /\ quick_mode = FALSE
    /\ coached_text = <<>>
    /\ fixed_count = 0
    /\ skipped_count = 0
    /\ issues \in {<<x>> : x \in DetectedIssues}
    /\ it = 0
    /\ i = 0
    /\ presented = <<>>
    /\ last_action = NoAction
    /\ validate_calls = 0
    /\ validation = NoValidation
    /\ coached_file = None
    /\ result = "None"

ValidateFix ==
    /\ pc = "validate_fix"
    /\ \E edited \in ValidateSnippets,
          new_an \in Reports(DetectGrammar, DetectReadability, DetectSpacy) :
         LET issue == issues[1]
             v == validate_fix(issue.context, edited, issue, new_an)
         IN  validation' = [called |-> TRUE, original |-> issue.context,
                            edited |-> edited, issue |-> issue,
                            report |-> new_an,
                            improved |-> v.improved, tier |-> v.tier,
                            metrics |-> v.metrics]
    /\ validate_calls' = validate_calls + 1
    /\ pc' = "validated"
    /\ UNCHANGED <<grammar_analyzer, readability_analyzer, quality_analyzer, analyzer_inits,
                   skip_types, quick_mode, original_text, coached_text,
                   fixed_count, skipped_count, analysis, all_issues, limit,
                   issues, it, i, presented, last_action, coached_file, result>>

NextValidate == ValidateFix

SpecValidate == InitValidate /\ [][NextValidate]_vars

(***************************************************************************)
(* The validator's rules against the detector's thresholds: an analysis    *)
(* pass over a text records the baselines, and validate_fix then judges an *)
(* edited snippet on one of the issues found or on an issue its caller     *)
(* built by hand.  The reports vary one metric at a time around the        *)
(* thresholds; the counts are per 100 sentences, 1000 tokens, 100 verbs    *)
(* and 100 content words, so that every percentage is a whole number of    *)
(* tenths.                                                                 *)
(***************************************************************************)
RuleDoc(passive, adverbs, weak, repetitions, transitions) ==
    SpacyDoc(100, passive, 1000, adverbs, 100, weak, 100, repetitions, transitions)

CalmDoc == RuleDoc(0, 0, 0, 0, 2)

CalmReadability == ReadabilityReport(Tenths(70), Tenths(15), 0)

NoMatches == GrammarReport(<<>>, <<>>)

RuleSpacy ==
    {CalmDoc, RuleDoc(0, 0, 0, 10, 2), RuleDoc(0, 0, 0, 11, 2),
     RuleDoc(0, 0, 0, 0, 1), RuleDoc(0, 0, 0, 0, 0)}
    \cup {RuleDoc(p, 0, 0, 0, 2) : p \in {8, 10, 11, 13, 15, 20}}
    \cup {RuleDoc(0, a, 0, 0, 2) : a \in {25, 30, 32, 40}}
    \cup {RuleDoc(0, 0, w, 0, 2) : w \in {25, 30, 32, 36}}

RuleReadability ==
    {CalmReadability}
    \cup {ReadabilityReport(f, Tenths(15), 1) : f \in {Tenths(45), Tenths(48)}}
    \cup {ReadabilityReport(Tenths(70), a, 0) :
              a \in {Tenths(20) - 1, Tenths(20), Tenths(21), Tenths(23) + 2}}

RuleGrammar ==
    {NoMatches, GrammarReport(Matches(1), <<>>), GrammarReport(<<>>, Matches(1))}

RuleReports ==
    Reports({NoMatches}, {CalmReadability}, RuleSpacy)
    \cup Reports({NoMatches}, RuleReadability, {CalmDoc})
    \cup Reports(RuleGrammar, {CalmReadability}, {CalmDoc})

RuleTexts == {<<"a", "b">>, <<"a", " ", "W">>}

RuleSnippets == {<<"b">>, <<"W">>}

\* issues built by hand, as test_fix_validator builds one
MockIssues ==
    {Issue(t, 5, <<"Test">>, <<"a">>, [percentage |-> Tenths(100)]) :
        t \in {"passive_voice", "spelling", "difficult_words", "style"}}

InitRules ==
    /\ grammar_analyzer \in BOOLEAN
    /\ readability_analyzer \in BOOLEAN
    /\ quality_analyzer \in BOOLEAN
    /\ analyzer_inits = FixValidator_init(NoInits)
    /\ pc = "find_all_issues"
    /\ original_text \in RuleTexts
    /\ analysis \in RuleReports
    /\ all_issues = <<>>
    /\ limit = 0
    /\ Idle

\* the analysis pass on the text; the caller then keeps one of the issues
\* found, or one it built itself, for validate_fix
Baseline ==
    /\ pc = "find_all_issues"
    /\ all_issues' = find_all_issues(original_text, analysis)
    /\ \E issue \in ListToSet(all_issues') \cup MockIssues : issues' = <<issue>>
    /\ pc' = "validate_fix"
    /\ UNCHANGED <<grammar_analyzer, readability_analyzer, quality_analyzer, analyzer_inits,
                   skip_types, quick_mode, original_text, coached_text,
                   fixed_count, skipped_count, analysis, limit, it, i,
                   presented, last_action, validate_calls, validation,
                   coached_file, result>>

\* validate_fix(issue.context, edited, issue)
ValidateRule ==
    /\ pc = "validate_fix"
    /\ \E edited \in RuleSnippets, new_an \in RuleReports :
         LET issue == issues[1]
             v == validate_fix(issue.context, edited, issue, new_an)
         IN  validation' = [called |-> TRUE, original |-> issue.context,
                            edited |-> edited, issue |-> issue,
                            report |-> new_an,
                            improved |-> v.improved, tier |-> v.tier,
                            metrics |-> v.metrics]
    /\ validate_calls' = validate_calls + 1
    /\ pc' = "validated"
    /\ UNCHANGED <<grammar_analyzer, readability_analyzer, quality_analyzer, analyzer_inits,
                   skip_types, quick_mode, original_text, coached_text,
                   fixed_count, skipped_count, analysis, all_issues, limit,
                   issues, it, i, presented, last_action, coached_file, result>>

NextRules == Baseline \/ ValidateRule

SpecRules == InitRules /\ [][NextRules]_vars

(***************************************************************************)
(* A coaching session on documents whose flagged snippets begin or end     *)
(* with white space or hold a line that starts with "#" (a Markdown        *)
(* heading), the snippets the inline editor's clean-up can alter.          *)
(***************************************************************************)
EditorDocuments ==
    {<<"a", "\n", "#", "b", " ", "b">>,
     <<" ", "b", " ", "a", "\n", "#", "b">>}

\* a match of the engine on the snippet where it stands in the text
MatchIn(content, context) == Match(context, Find(content, context) - 1)

EditorGrammar(content) ==
    {GrammarReport(<<MatchIn(content, <<" ", "b">>)>>, <<>>),
     GrammarReport(<<MatchIn(content, <<"b", " ">>)>>, <<>>),
     GrammarReport(<<MatchIn(content, <<"a", "\n", "#", "b">>)>>, <<>>),
     GrammarReport(<<MatchIn(content, <<"a">>)>>,
                   <<MatchIn(content, <<"#", "b">>)>>)}

LoadForEditor ==
    /\ pc = "constructed"
    /\ Load(EditorDocuments, [content \in EditorDocuments |-> EditorGrammar(content)])

NextEditor ==
    \/ LoadForEditor
    \/ QuitConfirmed
    \/ QuitDeclined
    \/ Skip
    \/ EditInline
    \/ EditExternal

SpecEditor == Init /\ [][NextEditor]_vars

(***************************************************************************)
(* Properties of the prioritizer and the detector (SpecDetect).            *)
(***************************************************************************)
Detected == "grammar" \in DOMAIN analysis

Important(list) == SelectSeq(list, LAMBDA x : x.severity >= 5)

\* C1: top_issues(issues, limit), for any list and any limit >= 0, returns
\* no issue of severity below 5 and at most limit issues.
C1_TopIssuesBounded ==
    pc = "prioritized" =>
        /\ Len(issues) <= limit
        /\ \A k \in 1..Len(issues) : issues[k].severity >= 5

\* the input holds an issue below 5 and more important issues than the limit
C1_Witness ==
    /\ pc = "prioritized"
    /\ limit > 0
    /\ \E k \in 1..Len(all_issues) : all_issues[k].severity < 5
    /\ Len(Important(all_issues)) > limit
    /\ Len(issues) = limit

SeverityClass(list, s) == SelectSeq(list, LAMBDA x : x.severity = s)

IsPrefix(p, list) == Len(p) <= Len(list) /\ SubSeq(list, 1, Len(p)) = p

\* place of a severity-6 type in the detector's category order
CategoryRank(type) ==
    CASE type = "difficult_words" -> 1
      [] type = "poor_transitions" -> 2
      [] type = "paragraph_too_long" -> 3
      [] OTHER -> 0

\* C2: the list top_issues returns is ordered by severity descending, and
\* issues of equal severity keep the relative order of the input list; on a
\* list from find_all_issues the severity-6 issues therefore come out as
\* difficult_words, poor_transitions, paragraph_too_long.
C2_TopIssuesStable ==
    pc = "prioritized" =>
        /\ \A k \in 1..(Len(issues) - 1) : issues[k].severity >= issues[k + 1].severity
        /\ \A s \in 1..10 : IsPrefix(SeverityClass(issues, s), SeverityClass(all_issues, s))
        /\ Detected =>
             \A a, b \in 1..Len(issues) :
                (a < b /\ issues[a].severity = 6 /\ issues[b].severity = 6)
                    => CategoryRank(issues[a].type) < CategoryRank(issues[b].type)

\* a detected list in which sentence_too_long overtakes difficult_words and
\* the three severity-6 issues follow each other in category order
C2_Witness ==
    /\ pc = "prioritized"
    /\ Detected
    /\ \E a, b \in 1..Len(all_issues) :
          a < b /\ all_issues[a].type = "difficult_words"
                /\ all_issues[b].type = "sentence_too_long"
    /\ \E k \in 1..(Len(issues) - 3) :
          /\ issues[k].type = "sentence_too_long"
          /\ issues[k + 1].type = "difficult_words"
          /\ issues[k + 2].type = "poor_transitions"
          /\ issues[k + 3].type = "paragraph_too_long"
    /\ \E k \in 1..(Len(issues) - 1) :
          /\ issues[k].type = "spelling" /\ issues[k + 1].type = "spelling"
          /\ issues[k].context # issues[k + 1].context

\* C3: every issue find_all_issues returns has the severity the static
\* table gives its type, so two issues of one type have one severity.
C3_SeverityFromTable ==
    (Detected /\ pc \in {"top_issues", "prioritized"}) =>
        /\ \A k \in 1..Len(all_issues) :
              /\ all_issues[k].type \in DOMAIN SEVERITY_SCORES
              /\ all_issues[k].severity = SEVERITY_SCORES[all_issues[k].type]
        /\ \A j, k \in 1..Len(all_issues) :
              all_issues[j].type = all_issues[k].type
                  => all_issues[j].severity = all_issues[k].severity

\* a detected list with two spelling issues, a low-severity issue and a
\* structure issue
C3_Witness ==
    /\ Detected
    /\ pc = "top_issues"
    /\ \E j, k \in 1..Len(all_issues) :
          j # k /\ all_issues[j].type = "spelling" /\ all_issues[k].type = "spelling"
    /\ \E k \in 1..Len(all_issues) : all_issues[k].type = "adverbs"
    /\ \E k \in 1..Len(all_issues) : all_issues[k].type = "paragraph_too_long"

\* the list find_all_issues returned for the analysed text is at hand
Found == Detected /\ pc \in {"top_issues", "prioritized"}

\* C11: with the grammar analyzer present, find_all_issues emits min(5, n)
\* spelling issues and min(5, m) grammar issues, n and m being the numbers of
\* spelling and grammar matches of the whole document, and every spelling
\* (grammar) issue carries metrics.issue_count = n (m).
C11_GrammarEmission ==
    (Found /\ grammar_analyzer) =>
        LET n == Len(analysis.grammar.spelling_issues)
            m == Len(analysis.grammar.grammar_issues)
        IN  /\ CountOfType(all_issues, "spelling") = Min(5, n)
            /\ CountOfType(all_issues, "grammar") = Min(5, m)
            /\ \A k \in 1..Len(all_issues) :
                  /\ all_issues[k].type = "spelling"
                        => all_issues[k].metrics.issue_count = n
                  /\ all_issues[k].type = "grammar"
                        => all_issues[k].metrics.issue_count = m

\* six spelling matches give five issues that each count six; three grammar
\* matches give three issues
C11_Witness ==
    /\ Found /\ grammar_analyzer
    /\ Len(analysis.grammar.spelling_issues) = 6
    /\ Len(analysis.grammar.grammar_issues) = 3
    /\ CountOfType(all_issues, "spelling") = 5
    /\ CountOfType(all_issues, "grammar") = 3
    /\ \E k \in 1..Len(all_issues) :
          all_issues[k].type = "spelling" /\ all_issues[k].metrics.issue_count = 6

\* C12: with the readability analyzer present, find_all_issues emits a
\* difficult_words issue exactly when the Flesch Reading Ease is strictly
\* below 50 and a sentence_too_long issue exactly when the average sentence
\* length is strictly above 20; neither check looks at the other's value and
\* each yields at most one issue.
C12_ReadabilityThresholds ==
    (Found /\ readability_analyzer) =>
        /\ CountOfType(all_issues, "difficult_words") =
              (IF analysis.readability.flesch_reading_ease < Tenths(50) THEN 1 ELSE 0)
        /\ CountOfType(all_issues, "sentence_too_long") =
              (IF analysis.readability.avg_sentence_length > Tenths(20) THEN 1 ELSE 0)

\* a score of exactly 50 with an average just above 20: the sentence issue
\* alone is emitted
C12_Witness ==
    /\ Found /\ readability_analyzer
    /\ analysis.readability.flesch_reading_ease = Tenths(50)
    /\ analysis.readability.avg_sentence_length = Tenths(20) + 1
    /\ CountOfType(all_issues, "difficult_words") = 0
    /\ CountOfType(all_issues, "sentence_too_long") = 1

\* C18: every issue find_all_issues(text) returns, whatever its type, has a
\* non-empty context that occurs verbatim in text.
C18_ContextInText ==
    Found =>
        \A k \in 1..Len(all_issues) :
            /\ all_issues[k].context # <<>>
            /\ Contains(original_text, all_issues[k].context)

\* the severity table as the specification lists it
ListedScores ==
    [spelling |-> 10, grammar |-> 9, sentence_too_long |-> 7,
     difficult_words |-> 6, poor_transitions |-> 6, paragraph_too_long |-> 6,
     passive_voice |-> 5, weak_verbs |-> 4, word_repetition |-> 4, adverbs |-> 3]

\* C20 as stated: score_issue returns the listed value for each of the ten
\* listed types and 3 for every other type.
C20_TenListedTypes ==
    pc = "scored" =>
        issues[1].severity =
            (IF issues[1].type \in DOMAIN ListedScores
             THEN ListedScores[issues[1].type] ELSE 3)

\* C20: score_issue returns the listed value for each of the ten listed
\* types, 10 for factual_error, and 3 for every other type, whatever
\* severity the issue carried.
C20_TableOrDefault ==
    pc = "scored" =>
        issues[1].severity =
            (IF issues[1].type \in DOMAIN ListedScores
             THEN ListedScores[issues[1].type]
             ELSE IF issues[1].type = "factual_error" THEN 10 ELSE 3)

\* an issue of the unlisted type style that carried severity 10 scores 3
C20_Witness ==
    /\ pc = "scored"
    /\ all_issues[1].type = "style"
    /\ all_issues[1].severity = 10
    /\ issues[1].type = "style"
    /\ issues[1].severity = 3

\* C22: find_all_issues emits a paragraph_too_long issue, and only one,
\* exactly when some blank-line-delimited paragraph has more than 150
\* words; its metrics.long_paragraphs lists every such paragraph as
\* (1-based number, word count) in document order and its location names
\* the first 3 of them at most.
C22_LongParagraphs ==
    Found =>
        LET paragraphs == Paragraphs(original_text)
            long == {k \in 1..Len(paragraphs) : WordCount(paragraphs[k]) > 150}
            emitted == SelectSeq(all_issues, LAMBDA x : x.type = "paragraph_too_long")
        IN  /\ Len(emitted) = (IF long # {} THEN 1 ELSE 0)
            /\ \A e \in 1..Len(emitted) :
                  LET listed == emitted[e].metrics.long_paragraphs
                  IN  /\ {listed[j][1] : j \in 1..Len(listed)} = long
                      /\ \A j \in 1..Len(listed) :
                            listed[j][2] = WordCount(paragraphs[listed[j][1]])
                      /\ \A j \in 1..(Len(listed) - 1) : listed[j][1] < listed[j + 1][1]
                      /\ emitted[e].location =
                            <<"Paragraph(s) ">> \o
                                [j \in 1..Min(3, Len(listed)) |-> ToString(listed[j][1])]

\* paragraphs 1, 3, 4 and 5 of five are long: all four are listed and the
\* location names 1, 3 and 4
C22_Witness ==
    /\ Found
    /\ \E k \in 1..Len(all_issues) :
          /\ all_issues[k].type = "paragraph_too_long"
          /\ all_issues[k].metrics.long_paragraphs
                = <<<<1, BlockWords>>, <<3, BlockWords>>, <<4, BlockWords>>, <<5, BlockWords>>>>
          /\ all_issues[k].location = <<"Paragraph(s) ", "1", "3", "4">>

(***************************************************************************)
(* Properties of the resolution loop (Spec).                               *)
(***************************************************************************)
\* the issue number of the latest presentation
LastPresented == presented[Len(presented)]

\* the issue the latest action was taken on
ActedIssue == issues[last_action.issue]

\* the step now taken is the handling of the action kind
Handles(kind) == pc = "presenting" /\ last_action'.kind = kind

\* after this step the next issue of the list is on show, or the list is
\* exhausted and nothing more is shown
NextIssueShown ==
    IF LastPresented < Len(issues)
    THEN pc' = "presenting" /\ presented' = Append(presented, LastPresented + 1)
    ELSE pc' = "done" /\ presented' = presented

\* C4: when the user chooses quit and declines the confirmation, the same
\* issue is presented again as the next presentation.
C4_DeclinedQuitRepresents ==
    [][Handles("quit_declined") =>
          /\ pc' = "presenting"
          /\ presented'[Len(presented')] = LastPresented]_vars

\* C5: a confirmed quit returns False, changes neither the counters nor the
\* working text, shows no further issue and is followed by no further step;
\* the coached file is never written after it.  The coached file exists only
\* when the loop has run through every issue and coach_article has returned
\* True, and it holds the final working text.
C5_QuitAborts ==
    /\ [](last_action.kind = "quit" =>
             pc = "done" /\ result = "False" /\ coached_file = None)
    /\ [](coached_file # None =>
             /\ pc = "done" /\ result = "True"
             /\ presented = [k \in 1..Len(issues) |-> k]
             /\ coached_file = coached_text)
    /\ [][Handles("quit") =>
             UNCHANGED <<coached_text, original_text, fixed_count, skipped_count,
                         presented, validate_calls, coached_file>>]_vars
    /\ [][last_action.kind # "quit"]_vars

\* a quit after an edit has landed, with issues left to show
C5_Witness ==
    /\ last_action.kind = "quit"
    /\ Len(presented) < Len(issues)
    /\ coached_text # original_text
    /\ fixed_count > 0

\* C6: a skip adds exactly 1 to the skipped counter, leaves the working text
\* and the fixed counter alone, and the next presentation is the next issue
\* of the prioritized list.
C6_SkipFrame ==
    [][Handles("skip") =>
          /\ skipped_count' = skipped_count + 1
          /\ coached_text' = coached_text
          /\ fixed_count' = fixed_count
          /\ NextIssueShown]_vars

\* a skip, after an edit, that leads to the presentation of the next issue
C6_Witness ==
    /\ last_action.kind = "skip"
    /\ pc = "presenting"
    /\ LastPresented = last_action.issue + 1
    /\ skipped_count = 1
    /\ fixed_count = 1
    /\ coached_text # original_text

\* C7: an inline edit whose result equals issue.context, or for which the
\* editor returns no text, leaves the working text and both counters alone
\* and does not invoke validate_fix.
C7_NoOpEdit ==
    [][(/\ Handles("edit_inline")
        /\ \/ last_action'.edited = None
           \/ last_action'.edited = issues[i].context) =>
          /\ coached_text' = coached_text
          /\ validate_calls' = validate_calls
          /\ ~validation'.called
          /\ fixed_count' = fixed_count
          /\ skipped_count' = skipped_count]_vars

\* an inline edit that returned the snippet as it was, the snippet being
\* present in the working text
C7_Witness ==
    /\ last_action.kind = "edit_inline"
    /\ last_action.edited = ActedIssue.context
    /\ Contains(coached_text, ActedIssue.context)
    /\ ~validation.called
    /\ validate_calls = 0
    /\ fixed_count = 0

OccursAt(s, sub, k) ==
    k + Len(sub) - 1 <= Len(s) /\ SubSeq(s, k, k + Len(sub) - 1) = sub

\* t is s with the occurrence of old at k replaced by new
ReplacedAt(s, t, old, new, k) ==
    t = SubSeq(s, 1, k - 1) \o new \o SubSeq(s, k + Len(old), Len(s))

\* C8: an inline edit whose result differs from issue.context replaces the
\* first occurrence of issue.context in the working text and no other,
\* invokes validate_fix once on (issue.context, edited text, issue), and adds
\* 1 to the fixed counter if and only if the verdict is improved.
C8_EditApplied ==
    [][(/\ Handles("edit_inline")
        /\ last_action'.edited # None
        /\ last_action'.edited # issues[i].context) =>
          /\ \/ /\ \A k \in 1..(Len(coached_text) + 1) :
                      ~OccursAt(coached_text, issues[i].context, k)
                /\ coached_text' = coached_text
             \/ \E k \in 1..(Len(coached_text) + 1) :
                   /\ OccursAt(coached_text, issues[i].context, k)
                   /\ \A j \in 1..(k - 1) : ~OccursAt(coached_text, issues[i].context, j)
                   /\ ReplacedAt(coached_text, coached_text', issues[i].context,
                                 last_action'.edited, k)
          /\ validate_calls' = validate_calls + 1
          /\ validation'.called
          /\ validation'.original = issues[i].context
          /\ validation'.edited = last_action'.edited
          /\ validation'.issue = issues[i]
          /\ fixed_count' = fixed_count + (IF validation'.improved THEN 1 ELSE 0)
          /\ skipped_count' = skipped_count]_vars

\* the snippet "a" of the text "aba" edited to "b": the second "a" stays
C8_Witness ==
    /\ last_action.kind = "edit_inline"
    /\ validation.called
    /\ original_text = <<"a", "b", "a">>
    /\ validation.original = <<"a">>
    /\ validation.edited = <<"b">>
    /\ coached_text = <<"b", "b", "a">>
    /\ validation.improved
    /\ fixed_count = 1
    /\ validate_calls = 1

\* C9: when the external editor succeeds the working text becomes the
\* reloaded document and the fixed counter grows by exactly 1 without a
\* validate_fix call, whatever was changed; when it fails the working text
\* and both counters stay as they were.
C9_ExternalEdit ==
    [][Handles("edit_external") =>
          /\ validate_calls' = validate_calls
          /\ ~validation'.called
          /\ skipped_count' = skipped_count
          /\ IF last_action'.edited # None
             THEN /\ coached_text' = last_action'.edited
                  /\ fixed_count' = fixed_count + 1
             ELSE /\ coached_text' = coached_text
                  /\ fixed_count' = fixed_count]_vars

\* an external edit that changed nothing and still counts as a fix
C9_Witness ==
    /\ last_action.kind = "edit_external"
    /\ last_action.edited = original_text
    /\ coached_text = original_text
    /\ fixed_count = 1
    /\ validate_calls = 0

\* C15: when an inline edit on a paragraph_too_long issue is validated, the
\* count compared with the baseline is the number of paragraphs over 150
\* words of the edited document, the working text after the replacement,
\* and the verdict is improved exactly when that count is 0 or below the
\* baseline count.
C15_ParagraphsOfDocument ==
    [][(/\ Handles("edit_inline")
        /\ validation'.called
        /\ validation'.issue.type = "paragraph_too_long") =>
          LET new == Len(LongParagraphs(coached_text'))
              old == Len(validation'.issue.metrics.long_paragraphs)
          IN  /\ validation'.metrics.after = new
              /\ validation'.improved <=> (new = 0 \/ new < old)]_vars

\* C23: when the filtered, prioritized list is empty coach_article presents
\* no issue, changes neither counter nor the working text, writes no
\* coached file and returns True.
C23_NoIssuesExit ==
    (pc = "done" /\ Detected /\ issues = <<>>) =>
        /\ presented = <<>>
        /\ last_action = NoAction
        /\ validate_calls = 0
        /\ fixed_count = 0
        /\ skipped_count = 0
        /\ coached_text = original_text
        /\ coached_file = None
        /\ result = "True"

\* the detector found issues and the filter removed every one of them
C23_Witness ==
    /\ pc = "done"
    /\ Detected
    /\ all_issues # <<>>
    /\ issues = <<>>
    /\ result = "True"
    /\ coached_file = None

\* C24: an inline edit whose issue.context does not occur verbatim in the
\* working text leaves the working text as it was.
C24_StaleContext ==
    [][(/\ Handles("edit_inline")
        /\ ~Contains(coached_text, issues[i].context)) =>
          coached_text' = coached_text]_vars

\* an accepted inline edit on a snippet of the loaded document that an
\* earlier edit had removed from the working text
C24_Witness ==
    /\ last_action.kind = "edit_inline"
    /\ validation.called
    /\ Contains(original_text, validation.original)
    /\ ~Contains(coached_text, validation.original)
    /\ ~Contains(coached_text, validation.edited)
    /\ coached_text = <<"b", "b">>

\* C25: original_text never changes once the document is loaded; the
\* working text changes only in a step that is an accepted inline edit or a
\* successful external edit; skip, quit (confirmed or declined) and the
\* validate_fix call of an inline edit leave original_text and the issue
\* list as they were, and skip and quit leave the working text as well; the
\* summary that follows the loop changes none of them.
C25_TextFrame ==
    /\ [][pc # "constructed" => original_text' = original_text]_vars
    /\ [][(pc # "constructed" /\ coached_text' # coached_text) =>
             \/ Handles("edit_inline") /\ validation'.called
             \/ Handles("edit_external") /\ last_action'.edited # None]_vars
    /\ [][(Handles("skip") \/ Handles("quit") \/ Handles("quit_declined")) =>
             UNCHANGED <<coached_text, original_text, issues, all_issues>>]_vars
    /\ [][pc = "presenting" =>
             /\ UNCHANGED <<issues, all_issues>>
             /\ validation'.called =>
                   /\ validation'.issue = issues[i]
                   /\ validation'.original = issues[i].context]_vars
    /\ [](coached_file # None => coached_file = coached_text)

\* a declined quit after an accepted inline edit has changed the working
\* text: the edit is kept and the loaded document is as it was
C25_Witness ==
    /\ last_action.kind = "quit_declined"
    /\ validate_calls = 1
    /\ coached_text # original_text
    /\ original_text = <<"a", "b", "a">>

\* C26: each analyzer that is available is initialized exactly once per
\* coaching session: once ArticleCoach is constructed each analyzer class
\* has been constructed once, and no step of the session (analysis,
\* validation, summary) constructs one again.
C26_InitializedOnce ==
    /\ [](/\ grammar_analyzer => analyzer_inits.grammar = 1
          /\ readability_analyzer => analyzer_inits.readability = 1
          /\ quality_analyzer => analyzer_inits.quality = 1)
    /\ [][analyzer_inits' = analyzer_inits]_vars

\* the text edit_text_inline returns when the file it wrote is saved as it
\* is
SavedUnchanged(context) == edit_text_inline(Header \o context)

\* C27: when the user saves the inline editor's buffer without changing the
\* snippet, the loop treats the result as no change for every snippet, also
\* one that holds a line starting with "#" or begins or ends with white
\* space: the working text is not replaced, validate_fix is not called and
\* no counter moves.
C27_UnchangedSave ==
    [][(/\ Handles("edit_inline")
        /\ last_action'.edited = SavedUnchanged(issues[i].context)) =>
          /\ coached_text' = coached_text
          /\ validate_calls' = validate_calls
          /\ ~validation'.called
          /\ fixed_count' = fixed_count
          /\ skipped_count' = skipped_count]_vars

\* C28: in every state of the resolution loop fixed_count + skipped_count
\* is at most the number of issues presented so far; the handling of one
\* presented issue changes at most one of the two counters, by exactly 1;
\* neither counter ever decreases.
C28_Counters ==
    /\ [](fixed_count + skipped_count <= Len(presented))
    /\ [][pc = "presenting" =>
             \/ UNCHANGED <<fixed_count, skipped_count>>
             \/ fixed_count' = fixed_count + 1 /\ skipped_count' = skipped_count
             \/ skipped_count' = skipped_count + 1 /\ fixed_count' = fixed_count]_vars
    /\ [][fixed_count' >= fixed_count /\ skipped_count' >= skipped_count]_vars

\* a finished session of at least three issues in which every presented
\* issue was either fixed or skipped: the bound is attained
C28_Witness ==
    /\ pc = "done"
    /\ Len(presented) >= 3
    /\ fixed_count > 0
    /\ skipped_count > 0
    /\ fixed_count + skipped_count = Len(presented)

C30_CountedFixChangesText ==
    [][(/\ Handles("edit_inline")
        /\ fixed_count' = fixed_count + 1) =>
          coached_text' # coached_text]_vars

(***************************************************************************)
(* Properties of the validator (SpecValidate).                             *)
(***************************************************************************)
\* the number of matches of the issue's type in the engine's report for the
\* edited snippet
FreshCount(v) ==
    IF v.issue.type = "spelling" THEN Len(v.report.grammar.spelling_issues)
    ELSE Len(v.report.grammar.grammar_issues)

\* C10: for a spelling or grammar issue validate_fix answers improved if and
\* only if new < old or new = 0, old being issue.metrics.issue_count and new
\* the total number of matches of that type in the fresh analysis of the
\* edited snippet, and reports new as the metric 'after'.
C10_GrammarVerdict ==
    (pc = "validated" /\ validation.issue.type \in {"spelling", "grammar"}) =>
        LET old == validation.issue.metrics.issue_count
            new == FreshCount(validation)
        IN  /\ validation.improved <=> (new < old \/ new = 0)
            /\ validation.metrics.after = new

\* C16: for a spelling or grammar issue with a baseline issue_count of at
\* least 1, validate_fix answers with the 'perfect, none remaining' tier
\* when the new count is 0 and with the 'reduced from N to M' tier when the
\* new count is above 0 and below the baseline; both tiers are improved.
C16_PerfectOrReduced ==
    (/\ pc = "validated"
     /\ validation.issue.type \in {"spelling", "grammar"}
     /\ validation.issue.metrics.issue_count >= 1) =>
        LET old == validation.issue.metrics.issue_count
            new == FreshCount(validation)
        IN  /\ new = 0 => (validation.tier = "perfect" /\ validation.improved)
            /\ (0 < new /\ new < old) =>
                  (validation.tier = "reduced" /\ validation.improved)

(***************************************************************************)
(* Properties of the validator's rules (SpecRules).                        *)
(***************************************************************************)
\* the passive percentage of the report on the edited snippet
FreshPassive(v) == detect_passive_voice(v.report.doc).percentage

\* C13: for a passive_voice issue with baseline old and fresh percentage
\* new, validate_fix tries the tiers in the order new < 10 (excellent),
\* old - new > 3 (good improvement), old - new > 0 (small improvement), and
\* answers improved for these three and not improved otherwise; so old = 15
\* with new = 8 is excellent and old = 15 with new = 11 is a good
\* improvement.
C13_PassiveTiers ==
    (pc = "validated" /\ quality_analyzer
        /\ validation.issue.type = "passive_voice") =>
        LET old == validation.issue.metrics.percentage
            new == FreshPassive(validation)
        IN  /\ validation.tier =
                  (IF new < Tenths(10) THEN "excellent"
                   ELSE IF old - new > Tenths(3) THEN "good improvement"
                   ELSE IF old - new > 0 THEN "small improvement"
                   ELSE "no improvement")
            /\ validation.improved <=> validation.tier # "no improvement"
            /\ (old = Tenths(15) /\ new = Tenths(8)) =>
                  (validation.tier = "excellent" /\ validation.improved)
            /\ (old = Tenths(15) /\ new = Tenths(11)) =>
                  (validation.tier = "good improvement" /\ validation.improved)

\* a detected baseline of 15% and an edited snippet at 11%
C13_Witness ==
    /\ pc = "validated" /\ quality_analyzer
    /\ validation.issue.type = "passive_voice"
    /\ \E k \in 1..Len(all_issues) : all_issues[k] = validation.issue
    /\ validation.issue.metrics.percentage = Tenths(15)
    /\ FreshPassive(validation) = Tenths(11)
    /\ validation.tier = "good improvement"
    /\ validation.improved

\* the validated issue is one the analysis pass found
FromDetector == \E k \in 1..Len(all_issues) : all_issues[k] = validation.issue

\* C14: for a passive_voice, adverbs, weak_verbs or sentence_too_long issue
\* the detector recorded, validate_fix answers improved whenever the fresh
\* value of the edited snippet no longer crosses the detector's threshold
\* for that type, that is whenever the detector does not flag the snippet.
C14_ThresholdsMirror ==
    (/\ pc = "validated"
     /\ validation.issue.type \in
            {"passive_voice", "adverbs", "weak_verbs", "sentence_too_long"}
     /\ FromDetector
     /\ CountOfType(find_all_issues(validation.edited, validation.report),
                    validation.issue.type) = 0)
        => validation.improved

GrammarTypes == {"spelling", "grammar"}

ReadabilityTypes == {"difficult_words", "sentence_too_long"}

QualityTypes ==
    {"passive_voice", "adverbs", "weak_verbs", "word_repetition", "poor_transitions"}

\* the analyzer the rule of this issue type depends on is present
Available(type) ==
    CASE type \in GrammarTypes -> grammar_analyzer
      [] type \in ReadabilityTypes -> readability_analyzer
      [] type \in QualityTypes -> quality_analyzer
      [] OTHER -> TRUE

OfTypes(list, types) == SelectSeq(list, LAMBDA x : x.type \in types)

\* C17: an analyzer that failed to initialize stays absent for the whole
\* session; find_all_issues then emits no issue of a type that analyzer
\* produces and still emits what the present analyzers and the paragraph
\* check produce; validate_fix on an issue whose rule depends on an absent
\* analyzer answers improved.
C17_AbsentAnalyzer ==
    /\ [][UNCHANGED <<grammar_analyzer, readability_analyzer, quality_analyzer>>]_vars
    /\ [](pc \in {"validate_fix", "validated"} =>
            /\ \A k \in 1..Len(all_issues) : Available(all_issues[k].type)
            /\ OfTypes(all_issues, {"paragraph_too_long"})
                  = detect_structure_issues(original_text)
            /\ grammar_analyzer =>
                  OfTypes(all_issues, GrammarTypes)
                      = detect_grammar_issues(analysis.grammar)
            /\ readability_analyzer =>
                  OfTypes(all_issues, ReadabilityTypes)
                      = detect_readability_issues(analysis.readability)
            /\ quality_analyzer =>
                  OfTypes(all_issues, QualityTypes)
                      = detect_quality_issues(quality_analyze(analysis.doc, original_text)))
    /\ [](pc = "validated" /\ ~Available(validation.issue.type)
            => validation.improved)

\* without the quality analyzer the pass still reports the long paragraph
\* and the long sentences, and a passive_voice issue handed to validate_fix
\* counts as improved
C17_Witness ==
    /\ pc = "validated"
    /\ ~quality_analyzer /\ readability_analyzer
    /\ CountOfType(all_issues, "paragraph_too_long") = 1
    /\ CountOfType(all_issues, "sentence_too_long") = 1
    /\ validation.issue.type = "passive_voice"
    /\ validation.improved
    /\ validation.tier = "text edited"

\* the key of issue.metrics that _check_improvement reads as the baseline
BaselineKey(type) ==
    CASE type \in {"spelling", "grammar"} -> "issue_count"
      [] type \in {"passive_voice", "weak_verbs"} -> "percentage"
      [] type = "adverbs" -> "rate"
      [] type = "difficult_words" -> "flesch_score"
      [] type = "sentence_too_long" -> "avg_sentence_length"
      [] type = "paragraph_too_long" -> "long_paragraphs"
      [] type = "word_repetition" -> "total_repetitions"
      [] type = "poor_transitions" -> "transition_count"
      [] OTHER -> "unread"

\* C19: the metrics of every issue find_all_issues emits hold the key that
\* validate_fix reads as the baseline for the issue's type, so that for an
\* issue of the detector the baseline validate_fix reports is the recorded
\* value and never the default.
C19_BaselineKeys ==
    /\ pc \in {"validate_fix", "validated"} =>
          \A k \in 1..Len(all_issues) :
              BaselineKey(all_issues[k].type) \in DOMAIN all_issues[k].metrics
    /\ (pc = "validated" /\ FromDetector) =>
          LET issue == validation.issue
              recorded == issue.metrics[BaselineKey(issue.type)]
          IN  validation.metrics.before =
                  (IF issue.type = "paragraph_too_long" THEN Len(recorded)
                   ELSE recorded)

\* an adverbs issue of the detector whose rate of 3.2 comes back as the
\* baseline of the verdict
C19_Witness ==
    /\ pc = "validated" /\ FromDetector
    /\ validation.issue.type = "adverbs"
    /\ validation.issue.metrics.rate = Tenths(3) + 2
    /\ validation.metrics.before = Tenths(3) + 2

\* 1 when the condition holds, else 0
Indicator(cond) == IF cond THEN 1 ELSE 0

\* C21: with the style analyzer present, find_all_issues emits at most one
\* issue of each of the types passive_voice, adverbs, weak_verbs and
\* word_repetition, and one only when the is_excessive flag of that metric
\* is true; it emits a poor_transitions issue exactly when the count of
\* transition words is strictly below the count of paragraphs.
C21_StyleFlags ==
    (pc \in {"validate_fix", "validated"} /\ quality_analyzer) =>
        LET q == quality_analyze(analysis.doc, original_text)
        IN  /\ CountOfType(all_issues, "passive_voice")
                  <= Indicator(q.passive_voice.is_excessive)
            /\ CountOfType(all_issues, "adverbs")
                  <= Indicator(q.adverbs.is_excessive)
            /\ CountOfType(all_issues, "weak_verbs")
                  <= Indicator(q.weak_verbs.is_excessive)
            /\ CountOfType(all_issues, "word_repetition")
                  <= Indicator(q.repetition.is_excessive)
            /\ CountOfType(all_issues, "poor_transitions")
                  = Indicator(analysis.doc.transitions
                                  < Len(Paragraphs(original_text)))

\* 11 passive sentences in 100 set the flag and one passive_voice issue is
\* emitted; two transition words for one paragraph give no poor_transitions
C21_Witness ==
    /\ pc = "validate_fix" /\ quality_analyzer
    /\ analysis.doc.passive = 11
    /\ analysis.doc.transitions = 2
    /\ Len(Paragraphs(original_text)) = 1
    /\ CountOfType(all_issues, "passive_voice") = 1
    /\ CountOfType(all_issues, "poor_transitions") = 0
    /\ Len(OfTypes(all_issues, QualityTypes)) = 1

====
